---- MODULE Spec2Model ----
(***************************************************************************)
(* A model of web_monitoring/html_diff_render.py: html_diff_render(a, b)   *)
(* as a pipeline over the two parsed documents, soup_old and soup_new.     *)
(*                                                                         *)
(* A document is a record [hasHead, head, hasBody, body]; head and body    *)
(* are sequences of nodes.  A node is [tag, attrs, text, kids]: attrs is a *)
(* set of <<name, value>> pairs, text and every attribute value are        *)
(* sequences of lexemes, kids is a sequence of nodes.  A lexeme is one     *)
(* character ("a", "&"), one entity ("&amp;") or one marker ("<ins>") of   *)
(* the text as written.  A text node has tag "#text".  The string that     *)
(* _htmldiff returns, appended to the body as one NavigableString, is a    *)
(* node of tag "#markup" whose kids are the markup it spells: they become  *)
(* elements only when the document is serialized and parsed again.         *)
(*                                                                         *)
(* The input documents hold no comments and no links; every text node and  *)
(* element of an input body holds one whitespace-free word, so that lxml's *)
(* tokenizer yields one token per body node with balanced tags around it,  *)
(* and no element is block-level, so that fixup_ins_del_tags moves nothing.*)
(***************************************************************************)
EXTENDS Integers, Sequences, FiniteSets, TLC

VARIABLES old_in, new_in, soup_old, soup_new, replacements_old,
          replacements_new, old_tokens, new_tokens, output, error, pc

vars == <<old_in, new_in, soup_old, soup_new, replacements_old,
          replacements_new, old_tokens, new_tokens, output, error, pc>>

\* The two input documents hold at most MaxNodes nodes between them.
MaxNodes == 3

----------------------------------------------------------------------------
\* Nodes and attributes

Node(tag, attrs, text, kids) ==
    [tag |-> tag, attrs |-> attrs, text |-> text, kids |-> kids]

TextNode(text) == Node("#text", {}, text, <<>>)

HasAttr(node, name) == \E p \in node.attrs : p[1] = name

GetAttr(node, name) == (CHOOSE p \in node.attrs : p[1] = name)[2]

SetAttr(node, name, value) ==
    [node EXCEPT !.attrs = {p \in @ : p[1] # name} \cup {<<name, value>>}]

PlaceholderAttr == "wm-diff-replacement"

UndiffableTags == {"script", "style"}

IsUndiffable(node) == node.tag \in UndiffableTags

RECURSIVE SeqConcat(_)
SeqConcat(ss) == IF ss = <<>> THEN <<>> ELSE Head(ss) \o SeqConcat(Tail(ss))

\* A node and all its descendants, in document order.
RECURSIVE Descendants(_)
Descendants(nodes) ==
    IF nodes = <<>> THEN <<>>
    ELSE <<Head(nodes)>> \o Descendants(Head(nodes).kids)
                         \o Descendants(Tail(nodes))

\* The nodes a tree-walking query (find_all, select) sees: the markup inside
\* a string is text to it.
RECURSIVE Navigable(_)
Navigable(nodes) ==
    IF nodes = <<>> THEN <<>>
    ELSE <<Head(nodes)>>
         \o (IF Head(nodes).tag = "#markup" THEN <<>>
             ELSE Navigable(Head(nodes).kids))
         \o Navigable(Tail(nodes))

DocNodes(soup) ==
    (IF soup.hasHead THEN soup.head ELSE <<>>)
    \o (IF soup.hasBody THEN soup.body ELSE <<>>)

----------------------------------------------------------------------------
\* Input documents

Title1 == Node("title", {}, <<"a", "b">>, <<>>)
Title2 == Node("title", {}, <<"a", "&">>, <<>>)
HeadScript == Node("script", {<<"src", <<"s">>>>}, <<"x", "\"">>, <<>>)

Word == TextNode(<<"w">>)
Word2 == TextNode(<<"t", "&">>)
Script ==
    Node("script", {<<"class", <<"c">>>>, <<"id", <<"k">>>>}, <<"\"", "y">>, <<>>)
Style == Node("style", {}, <<"&", "z">>, <<>>)
\* Input elements that already carry the placeholder attribute.
MarkedScript == Node("script", {<<PlaceholderAttr, <<"z", "z">>>>}, <<"v">>, <<>>)
MarkedSpan == Node("span", {<<PlaceholderAttr, <<"z", "z">>>>}, <<"u">>, <<>>)

HeadKinds == {Title1, Title2, HeadScript}
BodyKinds == {Word, Word2, Script, Style, MarkedScript, MarkedSpan}

SeqsUpTo(S, n) == UNION {[1..k -> S] : k \in 0..n}

Doc(hasHead, head, hasBody, body) ==
    [hasHead |-> hasHead, head |-> head, hasBody |-> hasBody, body |-> body]

Size(doc) == Len(doc.head) + Len(doc.body)

\* The documents of at most n nodes that the parser can give: a head or a
\* body that holds nodes is present, an empty one is present or absent.
ParsedDocs(n) ==
    UNION {UNION {{Doc(hh, h, hb, b) :
                      hh \in (IF h = <<>> THEN BOOLEAN ELSE {TRUE}),
                      hb \in (IF b = <<>> THEN BOOLEAN ELSE {TRUE})} :
                  b \in SeqsUpTo(BodyKinds, n - Len(h))} :
           h \in SeqsUpTo(HeadKinds, n)}

NoOutput == Doc(FALSE, <<>>, FALSE, <<>>)

Init ==
    /\ old_in \in ParsedDocs(MaxNodes)
    /\ new_in \in ParsedDocs(MaxNodes - Size(old_in))
    /\ soup_old = old_in
    /\ soup_new = new_in
    /\ replacements_old = {}
    /\ replacements_new = {}
    /\ old_tokens = <<>>
    /\ new_tokens = <<>>
    /\ output = NoOutput
    /\ error = "none"
    /\ pc = "parsed"

----------------------------------------------------------------------------
\* Ensure the new soup has a <head>.

EnsureHead ==
    /\ pc = "parsed"
    /\ soup_new' = IF soup_new.hasHead THEN soup_new
                   ELSE [soup_new EXCEPT !.hasHead = TRUE, !.head = <<>>]
    /\ pc' = "headed"
    /\ UNCHANGED <<old_in, new_in, soup_old, replacements_old,
                   replacements_new, old_tokens, new_tokens, output, error>>

----------------------------------------------------------------------------
\* _remove_undiffable_content

\* f'{prefix}-{index}', as lexemes.
MkId(prefix, index) == <<prefix, "-", ToString(index)>>

\* f'$[{replacement_id}]$': one word.
PlaceholderText(replacement_id) == <<"$[">> \o replacement_id \o <<"]$">>

\* The empty element of the same tag that stands in for an extracted one.
Placeholder(name, replacement_id) ==
    Node(name, {<<PlaceholderAttr, replacement_id>>},
         PlaceholderText(replacement_id), <<>>)

\* The number of script and style elements among nodes: enumerate() over
\* find_all(['script', 'style']) numbers them in document order.
RECURSIVE CountUndiffable(_)
CountUndiffable(nodes) ==
    IF nodes = <<>> THEN 0
    ELSE (IF IsUndiffable(Head(nodes)) THEN 1 ELSE 0)
         + CountUndiffable(Tail(nodes))

ReplaceUndiffable(nodes, prefix, before) ==
    [i \in 1..Len(nodes) |->
        IF IsUndiffable(nodes[i])
        THEN Placeholder(nodes[i].tag,
                 MkId(prefix, before + CountUndiffable(SubSeq(nodes, 1, i - 1))))
        ELSE nodes[i]]

ExtractedFrom(nodes, prefix, before) ==
    {[id |-> MkId(prefix, before + CountUndiffable(SubSeq(nodes, 1, i - 1))),
      element |-> nodes[i]] : i \in {j \in 1..Len(nodes) : IsUndiffable(nodes[j])}}

\* A variant that extracts nothing, so that script and style elements reach
\* the diff as they are.
RemoveNothing(soup, prefix) == [soup |-> soup, replacements |-> {}]

RemoveUndiffableContent(soup, prefix) ==
    LET inHead == CountUndiffable(soup.head)
    IN  [soup |-> [soup EXCEPT
                      !.head = ReplaceUndiffable(soup.head, prefix, 0),
                      !.body = ReplaceUndiffable(soup.body, prefix, inHead)],
         replacements |-> ExtractedFrom(soup.head, prefix, 0)
                          \cup ExtractedFrom(soup.body, prefix, inHead)]

ExtractOld ==
    /\ pc = "headed"
    /\ LET r == RemoveUndiffableContent(soup_old, "old")
       IN  /\ soup_old' = r.soup
           /\ replacements_old' = r.replacements
    /\ pc' = "extracted_old"
    /\ UNCHANGED <<old_in, new_in, soup_new, replacements_new, old_tokens,
                   new_tokens, output, error>>

ExtractNew ==
    /\ pc = "extracted_old"
    /\ LET r == RemoveUndiffableContent(soup_new, "new")
       IN  /\ soup_new' = r.soup
           /\ replacements_new' = r.replacements
    /\ pc' = "extracted"
    /\ UNCHANGED <<old_in, new_in, soup_old, replacements_old, old_tokens,
                   new_tokens, output, error>>

----------------------------------------------------------------------------
\* Escaping and entity decoding, lexeme by lexeme

\* html.escape: & < > " ' become entities; the & of an entity is escaped like
\* any other.
EscapeLexeme(c) ==
    CASE c = "&" -> <<"&amp;">>
      [] c = "<" -> <<"&lt;">>
      [] c = ">" -> <<"&gt;">>
      [] c = "\"" -> <<"&quot;">>
      [] c = "'" -> <<"&#x27;">>
      [] c = "&amp;" -> <<"&amp;", "amp;">>
      [] c = "&lt;" -> <<"&amp;", "lt;">>
      [] c = "&gt;" -> <<"&amp;", "gt;">>
      [] c = "&quot;" -> <<"&amp;", "quot;">>
      [] c = "&#x27;" -> <<"&amp;", "#x27;">>
      [] OTHER -> <<c>>

HtmlEscape(text) == SeqConcat([i \in 1..Len(text) |-> EscapeLexeme(text[i])])

\* What the parser reads for an entity.
DecodeLexeme(c) ==
    CASE c = "&amp;" -> "&"
      [] c = "&lt;" -> "<"
      [] c = "&gt;" -> ">"
      [] c = "&quot;" -> "\""
      [] c = "&#x27;" -> "'"
      [] OTHER -> c

Unescape(text) == [i \in 1..Len(text) |-> DecodeLexeme(text[i])]

Entities == {"&amp;", "&lt;", "&gt;", "&quot;", "&#x27;"}

----------------------------------------------------------------------------
\* _htmldiff: tokenize, htmldiff_tokens, fixup_ins_del_tags

\* tokenize: one token per word, its text escaped, with the tags around it.
\* A fragment without words gives one empty token.
Token(node) == [node EXCEPT !.text = HtmlEscape(@)]

Tokenize(nodes) ==
    IF nodes = <<>> THEN <<TextNode(<<>>)>>
    ELSE [i \in 1..Len(nodes) |-> Token(nodes[i])]

\* _customize_token: an href token becomes a MinimalHrefToken, any other
\* token is kept.
CustomizeToken(token) ==
    IF token.tag = "#href" THEN [token EXCEPT !.tag = "#minimal-href"]
    ELSE token

\* The length of the match of a[i+1..] and b[j+1..] below ahi and bhi.
RECURSIVE MatchLen(_, _, _, _, _, _)
MatchLen(a, i, ahi, b, j, bhi) ==
    IF i < ahi /\ j < bhi /\ a[i + 1].text = b[j + 1].text
    THEN 1 + MatchLen(a, i + 1, ahi, b, j + 1, bhi)
    ELSE 0

\* SequenceMatcher.find_longest_match: the longest block, the earliest in a
\* and then the earliest in b among the longest.
FindLongestMatch(a, alo, ahi, b, blo, bhi) ==
    LET cands == {<<i, j>> : i \in alo..(ahi - 1), j \in blo..(bhi - 1)}
        len(c) == MatchLen(a, c[1], ahi, b, c[2], bhi)
        best == {c \in cands :
                    /\ len(c) > 0
                    /\ \A d \in cands :
                          \/ len(d) < len(c)
                          \/ /\ len(d) = len(c)
                             /\ \/ c[1] < d[1]
                                \/ c[1] = d[1] /\ c[2] <= d[2]}
    IN  IF best = {} THEN <<alo, blo, 0>>
        ELSE LET c == CHOOSE c \in best : TRUE
             IN  <<c[1], c[2], len(c)>>

\* SequenceMatcher.get_matching_blocks, in order, without the final sentinel.
RECURSIVE MatchingBlocks(_, _, _, _, _, _)
MatchingBlocks(a, alo, ahi, b, blo, bhi) ==
    LET m == FindLongestMatch(a, alo, ahi, b, blo, bhi)
    IN  IF m[3] = 0 THEN <<>>
        ELSE (IF alo < m[1] /\ blo < m[2]
              THEN MatchingBlocks(a, alo, m[1], b, blo, m[2]) ELSE <<>>)
             \o <<m>>
             \o (IF m[1] + m[3] < ahi /\ m[2] + m[3] < bhi
                 THEN MatchingBlocks(a, m[1] + m[3], ahi, b, m[2] + m[3], bhi)
                 ELSE <<>>)

\* InsensitiveSequenceMatcher.get_matching_blocks: a block survives when its
\* size exceeds min(2, len(b) / 4).
SignificantBlocks(a, b) ==
    LET all == MatchingBlocks(a, 0, Len(a), b, 0, Len(b))
    IN  SelectSeq(all, LAMBDA m : m[3] > 2 \/ 4 * m[3] > Len(b))
        \o <<<<Len(a), Len(b), 0>>>>

\* get_opcodes and htmldiff_tokens: what lies before each block is inserted
\* (new tokens, in <ins>) and then deleted (old tokens, in <del>); the block
\* itself is rendered from the new tokens.
RECURSIVE RenderBlocks(_, _, _, _, _)
RenderBlocks(a, b, blocks, i, j) ==
    IF blocks = <<>> THEN <<>>
    ELSE LET m == Head(blocks)
         IN  (IF j < m[2]
              THEN <<Node("ins", {}, <<>>, SubSeq(b, j + 1, m[2]))>> ELSE <<>>)
             \o (IF i < m[1]
                 THEN <<Node("del", {}, <<>>, SubSeq(a, i + 1, m[1]))>>
                 ELSE <<>>)
             \o SubSeq(b, m[2] + 1, m[2] + m[3])
             \o RenderBlocks(a, b, Tail(blocks), m[1] + m[3], m[2] + m[3])

HtmlDiffTokens(a, b) == RenderBlocks(a, b, SignificantBlocks(a, b), 0, 0)

CustomTokens(nodes) ==
    [i \in 1..Len(Tokenize(nodes)) |-> CustomizeToken(Tokenize(nodes)[i])]

HtmlDiff(old, new) == HtmlDiffTokens(CustomTokens(old), CustomTokens(new))

\* _diff_elements, given that both elements are present: the new element,
\* cleared, holding the diff as one string.
DiffElements(old, new) == <<Node("#markup", {}, <<>>, HtmlDiff(old, new))>>

\* soup_new.body.replace_with(_diff_elements(soup_old.body, soup_new.body))
DiffBody ==
    /\ pc = "extracted"
    /\ IF ~soup_new.hasBody
       THEN \* None has no replace_with
            /\ pc' = "error"
            /\ error' = "AttributeError"
            /\ UNCHANGED <<soup_new, old_tokens, new_tokens>>
       ELSE IF ~soup_old.hasBody
       THEN \* the body is replaced by the string ''
            /\ soup_new' = [soup_new EXCEPT !.hasBody = FALSE, !.body = <<>>]
            /\ pc' = "diffed"
            /\ UNCHANGED <<old_tokens, new_tokens, error>>
       ELSE /\ soup_new' = [soup_new EXCEPT
                                !.body = DiffElements(soup_old.body, @)]
            /\ old_tokens' = CustomTokens(soup_old.body)
            /\ new_tokens' = CustomTokens(soup_new.body)
            /\ pc' = "diffed"
            /\ UNCHANGED error
    /\ UNCHANGED <<old_in, new_in, soup_old, replacements_old,
                   replacements_new, output>>

----------------------------------------------------------------------------
\* The title diff

\* soup.title and soup.title.string or ''
GetTitle(soup) ==
    LET titles == SelectSeq(Navigable(DocNodes(soup)),
                            LAMBDA n : n.tag = "title")
    IN  IF titles = <<>> THEN <<>> ELSE titles[1].text

RECURSIVE CommonPrefix(_, _)
CommonPrefix(a, b) ==
    IF a # <<>> /\ b # <<>> /\ Head(a) = Head(b)
    THEN 1 + CommonPrefix(Tail(a), Tail(b))
    ELSE 0

Reverse(s) == [i \in 1..Len(s) |-> s[Len(s) + 1 - i]]

\* differs.compute_dmp_diff: the character diff as ordered operations
\* <<kind, text>>, kind -1 a delete, 1 an insert, 0 an equal span: the common
\* prefix, what the old string alone holds, what the new one alone holds, the
\* common suffix; spans that are empty are left out.
ComputeDmpDiff(a, b) ==
    LET p == CommonPrefix(a, b)
        ra == SubSeq(a, p + 1, Len(a))
        rb == SubSeq(b, p + 1, Len(b))
        q == CommonPrefix(Reverse(ra), Reverse(rb))
        op(kind, text) == IF text = <<>> THEN <<>> ELSE <<<<kind, text>>>>
    IN  op(0, SubSeq(a, 1, p))
        \o op(-1, SubSeq(ra, 1, Len(ra) - q))
        \o op(1, SubSeq(rb, 1, Len(rb) - q))
        \o op(0, SubSeq(ra, Len(ra) - q + 1, Len(ra)))

HtmlForDmpOperation(operation) ==
    LET html_value == HtmlEscape(operation[2])
    IN  IF operation[1] = -1 THEN <<"<del>">> \o html_value \o <<"</del>">>
        ELSE IF operation[1] = 1 THEN <<"<ins>">> \o html_value \o <<"</ins>">>
        ELSE html_value

DiffTitle(old, new) ==
    LET diff == ComputeDmpDiff(GetTitle(old), GetTitle(new))
    IN  SeqConcat([i \in 1..Len(diff) |-> HtmlForDmpOperation(diff[i])])

----------------------------------------------------------------------------
\* The head of the output: the title diff, the old head, the diff styles

TitleMeta(old, new) ==
    Node("meta", {<<"content", DiffTitle(old, new)>>,
                  <<"name", <<"wm-diff-title">>>>}, <<>>, <<>>)

OldHead(old) ==
    Node("template", {<<"id", <<"wm-diff-old-head">>>>}, <<>>,
         IF old.hasHead THEN old.head ELSE <<>>)

ChangeStyles ==
    Node("style", {<<"type", <<"text/css">>>>, <<"id", <<"wm-diff-style">>>>},
         <<"ins{}", "del{}">>, <<>>)

AssembleHead ==
    /\ pc = "diffed"
    /\ soup_new' = [soup_new EXCEPT
           !.head = @ \o <<TitleMeta(soup_old, soup_new), OldHead(soup_old),
                           ChangeStyles>>]
    /\ soup_old' = [soup_old EXCEPT !.head = <<>>]
    /\ pc' = "assembled"
    /\ UNCHANGED <<old_in, new_in, replacements_old, replacements_new,
                   old_tokens, new_tokens, output, error>>

----------------------------------------------------------------------------
\* BeautifulSoup(soup_new.prettify(formatter=None), 'lxml')

RawTextTags == {"script", "style"}

\* prettify(formatter=None): nothing is escaped, and a string that holds
\* markup is written as the markup.
RECURSIVE SerializeUnformatted(_)
SerializeUnformatted(nodes) ==
    SeqConcat([i \in 1..Len(nodes) |->
        IF nodes[i].tag = "#markup" THEN nodes[i].kids
        ELSE <<[nodes[i] EXCEPT !.kids = SerializeUnformatted(@)]>>])

\* The parser decodes the entities of attribute values and of text, but not
\* of the text of a script or style element; text that is empty is no node.
RECURSIVE Parse(_)
Parse(nodes) ==
    SeqConcat([i \in 1..Len(nodes) |->
        IF nodes[i].tag = "#text" /\ nodes[i].text = <<>> THEN <<>>
        ELSE <<[tag |-> nodes[i].tag,
                attrs |-> {<<p[1], Unescape(p[2])>> : p \in nodes[i].attrs},
                text |-> IF nodes[i].tag \in RawTextTags THEN nodes[i].text
                         ELSE Unescape(nodes[i].text),
                kids |-> Parse(nodes[i].kids)]>>])

Reparse ==
    /\ pc = "assembled"
    /\ soup_new' = [soup_new EXCEPT
           !.head = Parse(SerializeUnformatted(@)),
           !.body = Parse(SerializeUnformatted(@))]
    /\ pc' = "reparsed"
    /\ UNCHANGED <<old_in, new_in, soup_old, replacements_old,
                   replacements_new, old_tokens, new_tokens, output, error>>

----------------------------------------------------------------------------
\* _add_undiffable_content

\* replacements_new.update(replacements_old)
Update(into, from) ==
    {r \in into : \A f \in from : f.id # r.id} \cup from

HasKey(replacements, replacement_id) ==
    \E r \in replacements : r.id = replacement_id

Lookup(replacements, replacement_id) ==
    (CHOOSE r \in replacements : r.id = replacement_id).element

\* replacement_id.startswith('old-')
StartsWithOld(replacement_id) ==
    /\ Len(replacement_id) >= 2
    /\ replacement_id[1] = "old"
    /\ replacement_id[2] = "-"

\* A variant that builds the restored element's attributes anew, keeping
\* none of those it had.
RestoredWithClassOnly(replacement_id, replacement) ==
    IF StartsWithOld(replacement_id)
    THEN Node("template", {<<"class", <<"wm-diff-deleted-inert">>>>}, <<>>,
              <<[replacement EXCEPT
                    !.attrs = {<<"class", <<"wm-diff-deleted-active">>>>}]>>)
    ELSE [replacement EXCEPT
             !.attrs = {<<"class", <<"wm-diff-inserted-active">>>>}]

\* What replaces a placeholder whose id is a key.
Restored(replacement_id, replacement) ==
    IF StartsWithOld(replacement_id)
    THEN Node("template", {<<"class", <<"wm-diff-deleted-inert">>>>}, <<>>,
              <<SetAttr(replacement, "class", <<"wm-diff-deleted-active">>)>>)
    ELSE SetAttr(replacement, "class", <<"wm-diff-inserted-active">>)

\* soup.select('[wm-diff-replacement]')
Selected(soup) ==
    SelectSeq(Navigable(DocNodes(soup)), LAMBDA n : HasAttr(n, PlaceholderAttr))

\* A variant that restores the placeholders that are children of the head
\* and of the body and none below them.
RestoreTopLevelOnly(nodes, replacements) ==
    [i \in 1..Len(nodes) |->
        IF HasAttr(nodes[i], PlaceholderAttr)
        THEN Restored(GetAttr(nodes[i], PlaceholderAttr),
                      Lookup(replacements, GetAttr(nodes[i], PlaceholderAttr)))
        ELSE nodes[i]]

RECURSIVE RestoreNodes(_, _)
RestoreNodes(nodes, replacements) ==
    [i \in 1..Len(nodes) |->
        IF HasAttr(nodes[i], PlaceholderAttr)
        THEN Restored(GetAttr(nodes[i], PlaceholderAttr),
                      Lookup(replacements, GetAttr(nodes[i], PlaceholderAttr)))
        ELSE [nodes[i] EXCEPT !.kids = RestoreNodes(@, replacements)]]

\* replacements[replacement_id] of an id that is no key raises KeyError.
MissingKey(soup, replacements) ==
    \E i \in 1..Len(Selected(soup)) :
        ~HasKey(replacements, GetAttr(Selected(soup)[i], PlaceholderAttr))

AddUndiffableContent(soup, replacements) ==
    [soup EXCEPT !.head = RestoreNodes(@, replacements),
                 !.body = RestoreNodes(@, replacements)]

Restore ==
    /\ pc = "reparsed"
    /\ replacements_new' = Update(replacements_new, replacements_old)
    /\ IF MissingKey(soup_new, replacements_new')
       THEN /\ pc' = "error"
            /\ error' = "KeyError"
            /\ UNCHANGED soup_new
       ELSE /\ soup_new' = AddUndiffableContent(soup_new, replacements_new')
            /\ pc' = "restored"
            /\ UNCHANGED error
    /\ UNCHANGED <<old_in, new_in, soup_old, replacements_old, old_tokens,
                   new_tokens, output>>

----------------------------------------------------------------------------
\* soup_new.prettify(formatter='minimal')

\* The minimal formatter escapes & < and >.
EscapeMinimalLexeme(c) ==
    IF c \in {"&", "<", ">"} \cup Entities THEN EscapeLexeme(c) ELSE <<c>>

EscapeMinimal(text) ==
    SeqConcat([i \in 1..Len(text) |-> EscapeMinimalLexeme(text[i])])

\* A variant that escapes the text of script and style elements like any
\* other text.
RECURSIVE SerializeEscapingAll(_)
SerializeEscapingAll(nodes) ==
    [i \in 1..Len(nodes) |->
        [tag |-> nodes[i].tag,
         attrs |-> {<<p[1], EscapeMinimal(p[2])>> : p \in nodes[i].attrs},
         text |-> EscapeMinimal(nodes[i].text),
         kids |-> SerializeEscapingAll(nodes[i].kids)]]

\* The text of the document as written: the formatter leaves the text of a
\* script or style element as it is.
RECURSIVE SerializeMinimal(_)
SerializeMinimal(nodes) ==
    [i \in 1..Len(nodes) |->
        [tag |-> nodes[i].tag,
         attrs |-> {<<p[1], EscapeMinimal(p[2])>> : p \in nodes[i].attrs},
         text |-> IF nodes[i].tag \in RawTextTags THEN nodes[i].text
                  ELSE EscapeMinimal(nodes[i].text),
         kids |-> SerializeMinimal(nodes[i].kids)]]

Serialize ==
    /\ pc = "restored"
    /\ output' = [soup_new EXCEPT !.head = SerializeMinimal(@),
                                  !.body = SerializeMinimal(@)]
    /\ pc' = "done"
    /\ UNCHANGED <<old_in, new_in, soup_old, soup_new, replacements_old,
                   replacements_new, old_tokens, new_tokens, error>>

Next ==
    \/ EnsureHead
    \/ ExtractOld
    \/ ExtractNew
    \/ DiffBody
    \/ AssembleHead
    \/ Reparse
    \/ Restore
    \/ Serialize

Spec == Init /\ [][Next]_vars

----------------------------------------------------------------------------
\* What the claims speak of

OutputNodes == Descendants(DocNodes(output))

\* The script and style elements of an input document, in document order.
Undiffable(doc) == SelectSeq(DocNodes(doc), IsUndiffable)

InSeq(x, s) == \E i \in 1..Len(s) : s[i] = x

Count(x, s) == Cardinality({i \in 1..Len(s) : s[i] = x})

IsInertWrapper(node) ==
    /\ node.tag = "template"
    /\ <<"class", <<"wm-diff-deleted-inert">>>> \in node.attrs

\* The children of the inert wrappers of a tree.
InertIn(nodes) ==
    SeqConcat([i \in 1..Len(Descendants(nodes)) |->
        IF IsInertWrapper(Descendants(nodes)[i])
        THEN Descendants(nodes)[i].kids ELSE <<>>])

\* The script and style elements of a tree outside every inert wrapper, the
\* diff's own style block aside.
RECURSIVE ActiveIn(_)
ActiveIn(nodes) ==
    SeqConcat([i \in 1..Len(nodes) |->
        IF IsInertWrapper(nodes[i]) \/ nodes[i] = ChangeStyles THEN <<>>
        ELSE (IF IsUndiffable(nodes[i]) THEN <<nodes[i]>> ELSE <<>>)
             \o ActiveIn(nodes[i].kids)])

WithoutClass(node) == {p \in node.attrs : p[1] # "class"}

Returned == pc = "done"

HasMarker(nodes) ==
    \E i \in 1..Len(Descendants(nodes)) :
        Descendants(nodes)[i].tag \in {"ins", "del"}

\* The text of a tree that lies outside its script elements.
RECURSIVE TextOutsideScripts(_)
TextOutsideScripts(nodes) ==
    SeqConcat([i \in 1..Len(nodes) |->
        IF nodes[i].tag = "script" THEN <<>>
        ELSE nodes[i].text \o TextOutsideScripts(nodes[i].kids)])

OnlyScripts(doc) ==
    /\ doc.hasBody
    /\ doc.body # <<>>
    /\ \A i \in 1..Len(doc.body) : doc.body[i].tag = "script"

TitleMetaOf(nodes) ==
    SelectSeq(nodes, LAMBDA n : <<"name", <<"wm-diff-title">>>> \in n.attrs)

OldHeadOf(nodes) ==
    SelectSeq(nodes, LAMBDA n : n.tag = "template"
                                /\ <<"id", <<"wm-diff-old-head">>>> \in n.attrs)

InputCarriesPlaceholderAttr ==
    \E i \in 1..Len(DocNodes(old_in) \o DocNodes(new_in)) :
        HasAttr((DocNodes(old_in) \o DocNodes(new_in))[i], PlaceholderAttr)

----------------------------------------------------------------------------
C2_EveryExtractedElementRestoredOnce ==
    Returned =>
        /\ \A i \in 1..Len(Undiffable(old_in)) :
              LET e == SetAttr(Undiffable(old_in)[i], "class",
                               <<"wm-diff-deleted-active">>)
              IN  Count(e, InertIn(DocNodes(soup_new)))
                  = Count(Undiffable(old_in)[i], Undiffable(old_in))
        /\ \A i \in 1..Len(Undiffable(new_in)) :
              LET e == SetAttr(Undiffable(new_in)[i], "class",
                               <<"wm-diff-inserted-active">>)
              IN  Count(e, ActiveIn(DocNodes(soup_new)))
                  = Count(Undiffable(new_in)[i], Undiffable(new_in))

\* C3: the token-diff engine sees, for a script or style element, only its
\* placeholder literal, and when both bodies hold script elements only, the
\* returned body has no text outside its script elements.
C3_ScriptContentNeverPageText ==
    /\ \A i \in 1..Len(old_tokens) :
          IsUndiffable(old_tokens[i]) =>
              \E r \in replacements_old :
                  old_tokens[i].text = PlaceholderText(r.id)
    /\ \A i \in 1..Len(new_tokens) :
          IsUndiffable(new_tokens[i]) =>
              \E r \in replacements_new :
                  new_tokens[i].text = PlaceholderText(r.id)
    /\ (Returned /\ OnlyScripts(old_in) /\ OnlyScripts(new_in)) =>
          TextOutsideScripts(output.body) = <<>>

\* One script in the old body, two in the new one, and all three returned.
C3_Witness ==
    /\ Returned
    /\ OnlyScripts(old_in) /\ Len(old_in.body) = 1
    /\ OnlyScripts(new_in) /\ Len(new_in.body) = 2
    /\ new_in.body[1] # old_in.body[1]
    /\ Len(SelectSeq(Descendants(output.body), IsUndiffable)) = 3
    /\ Len(old_tokens) = 1 /\ Len(new_tokens) = 2

\* C4: the text of every script or style element of the returned document,
\* restored as active or as inert, is the text that element had in its
\* input, no character of it replaced by an entity.
C4_EmbeddedContentNotEscaped ==
    Returned =>
        \A i \in 1..Len(OutputNodes) :
            (IsUndiffable(OutputNodes[i])
             /\ OutputNodes[i].text # ChangeStyles.text) =>
                /\ \A k \in 1..Len(OutputNodes[i].text) :
                      OutputNodes[i].text[k] \notin Entities
                /\ \E d \in {old_in, new_in} :
                      \E j \in 1..Len(Undiffable(d)) :
                          Undiffable(d)[j].text = OutputNodes[i].text

\* The page text changed around a script whose text holds a double quote,
\* and the script is returned both as active and as inert.
C4_Witness ==
    /\ Returned
    /\ old_in.body = <<Word, Script>>
    /\ new_in.body = <<Script>>
    /\ InSeq(SetAttr(Script, "class", <<"wm-diff-deleted-active">>),
             InertIn(output.body))
    /\ InSeq(SetAttr(Script, "class", <<"wm-diff-inserted-active">>),
             ActiveIn(output.body))

\* C5, as stated: the diff of a document with itself has no <ins> or <del>
\* in its body and none in its title diff.
C5_Idempotence ==
    (Returned /\ old_in = new_in) =>
        /\ ~HasMarker(soup_new.body)
        /\ \A i \in 1..Len(TitleMetaOf(soup_new.head)) :
              \A k \in 1..Len(GetAttr(TitleMetaOf(soup_new.head)[i], "content")) :
                  GetAttr(TitleMetaOf(soup_new.head)[i], "content")[k]
                      \notin {"<ins>", "</ins>", "<del>", "</del>"}

\* C6, as stated: every restored script or style element has the attributes
\* it had in its input document.
C6_AttributesIdentical ==
    Returned =>
        /\ \A i \in 1..Len(InertIn(DocNodes(soup_new))) :
              \E j \in 1..Len(Undiffable(old_in)) :
                  /\ Undiffable(old_in)[j].tag = InertIn(DocNodes(soup_new))[i].tag
                  /\ Undiffable(old_in)[j].text = InertIn(DocNodes(soup_new))[i].text
                  /\ Undiffable(old_in)[j].attrs = InertIn(DocNodes(soup_new))[i].attrs
        /\ \A i \in 1..Len(ActiveIn(DocNodes(soup_new))) :
              \E j \in 1..Len(Undiffable(new_in)) :
                  /\ Undiffable(new_in)[j].tag = ActiveIn(DocNodes(soup_new))[i].tag
                  /\ Undiffable(new_in)[j].text = ActiveIn(DocNodes(soup_new))[i].text
                  /\ Undiffable(new_in)[j].attrs = ActiveIn(DocNodes(soup_new))[i].attrs

\* C6, amended: every restored script or style element has, class aside, the
\* attributes it had in its input document; its class attribute is
\* wm-diff-deleted-active in the old role and wm-diff-inserted-active in the
\* new one, whatever class it had.
C6_AttributesIdenticalButClass ==
    Returned =>
        /\ \A i \in 1..Len(InertIn(DocNodes(soup_new))) :
              \E j \in 1..Len(Undiffable(old_in)) :
                  InertIn(DocNodes(soup_new))[i]
                      = SetAttr(Undiffable(old_in)[j], "class",
                                <<"wm-diff-deleted-active">>)
        /\ \A i \in 1..Len(ActiveIn(DocNodes(soup_new))) :
              \E j \in 1..Len(Undiffable(new_in)) :
                  ActiveIn(DocNodes(soup_new))[i]
                      = SetAttr(Undiffable(new_in)[j], "class",
                                <<"wm-diff-inserted-active">>)

\* A script with an id and a class of its own is returned in both roles, and
\* a style without attributes in one.
C6_Witness ==
    /\ Returned
    /\ InSeq(SetAttr(Script, "class", <<"wm-diff-deleted-active">>),
             InertIn(DocNodes(soup_new)))
    /\ InSeq(SetAttr(Style, "class", <<"wm-diff-inserted-active">>),
             ActiveIn(DocNodes(soup_new)))
    /\ InSeq(SetAttr(Script, "class", <<"wm-diff-inserted-active">>),
             ActiveIn(DocNodes(soup_new)))

\* C7, as stated: the wm-diff-old-head template of the returned head holds
\* the old document's head, node for node, and nothing when there is none.
C7_OldHeadPreserved ==
    Returned =>
        /\ Len(OldHeadOf(soup_new.head)) = 1
        /\ OldHeadOf(soup_new.head)[1].kids = old_in.head

\* C8, as stated: the content attribute of the wm-diff-title meta element of
\* the returned head is the rendered title diff.
C8_TitleMetaHoldsRenderedDiff ==
    Returned =>
        /\ Len(TitleMetaOf(soup_new.head)) = 1
        /\ GetAttr(TitleMetaOf(soup_new.head)[1], "content")
           = DiffTitle(old_in, new_in)

\* C9, as stated: whatever heads, titles and bodies the two documents have or
\* lack, html_diff_render raises no error.
C9_MissingPiecesRaiseNoError ==
    ~InputCarriesPlaceholderAttr => pc # "error"

\* C10, as stated: an element whose wm-diff-replacement value is no key of
\* the placeholder table raises no error in _add_undiffable_content.
C10_UnknownPlaceholderRaisesNoError ==
    error # "KeyError"

====
